---- MODULE Spec2Model ----
(***************************************************************************)
(* Document ingestion and AI-assisted extraction pipeline of the finance   *)
(* tracker: the BillsReceiptsManager component (uploaded documents, chat), *)
(* the App ledger and the three service functions of services/openai.ts.   *)
(*                                                                         *)
(* Conventions.  A JavaScript string is a TLA+ string.  An optional value  *)
(* (undefined or a value) is a sequence of length 0 or 1: None or Some(v). *)
(* Money amounts are integers in cents.  Date.now() is the variable now.   *)
(***************************************************************************)
EXTENDS Integers, Sequences, FiniteSets, TLC

(***************************************************************************)
(* Bounds of the model.                                                    *)
(***************************************************************************)
MaxDocs == 2
MaxLedger == 3
MaxHistory == 61
MaxChat == 2
MaxChatDocs == 1
MaxClock == 2
MaxAppLedger == 6
MaxInsightCalls == 2

(***************************************************************************)
(* Optional values and JavaScript truthiness of an optional string.        *)
(***************************************************************************)
None == <<>>
Some(v) == <<v>>
Truthy(opt) == opt /= None /\ opt[1] /= ""

(***************************************************************************)
(* Raw items of an extraction result (TransactionExtraction.transactions). *)
(* NullItem is a JSON null in the list.                                    *)
(***************************************************************************)
NullItem == [isNull |-> TRUE]
RawItem(d, a, c, s, t) ==
  [isNull |-> FALSE, date |-> d, amount |-> a, category |-> c,
   description |-> s, type |-> t]

RawSandwich == RawItem("2024-03-01", 1250, "food", "Sandwich", "expense")
RawTea == RawItem("2024-03-01", 300, "food", "Tea", "expense")

RawReceipt == << RawSandwich, RawTea >>

(***************************************************************************)
(* Payloads that JSON.parse(content) can return (openai.ts line 102).      *)
(* isNull: the JSON value null.  isValidDocument: truthiness of the field  *)
(* (a missing field is falsy).  The other fields are optional.             *)
(***************************************************************************)
Payload(n, v, r, t, a) ==
  [isNull |-> n, isValidDocument |-> v, rejectionReason |-> r,
   transactions |-> t, analysis |-> a]

NullPayload == Payload(TRUE, FALSE, None, None, None)
EmptyObject == Payload(FALSE, FALSE, None, None, None)

RejectPayloads ==
  { Payload(FALSE, FALSE, Some("not a financial document"), Some(RawReceipt),
            Some("Unrelated photo")),
    EmptyObject }
ValidPayloads ==
  { Payload(FALSE, TRUE, None, Some(RawReceipt), Some("Receipt with two food items")),
    Payload(FALSE, TRUE, None, Some(<<RawTea>>), None),
    Payload(FALSE, TRUE, None, Some(<<RawTea, NullItem>>), Some("Receipt")),
    Payload(FALSE, TRUE, None, None, Some("Receipt")) }

Payloads == { NullPayload } \cup RejectPayloads \cup ValidPayloads

(***************************************************************************)
(* Outcomes of one fetch issued by extractTransactionsFromImage.           *)
(***************************************************************************)
TransportErrors == { "fetchReject", "httpError" }
MalformedResponses == { "emptyContent", "badJson" }
Outcome(k, p) == [kind |-> k, payload |-> p]
NoOutcome == Outcome("none", NullPayload)
Outcomes ==
  { Outcome(k, NullPayload) : k \in TransportErrors \cup MalformedResponses }
  \cup { Outcome("parsed", p) : p \in Payloads }

VARIABLES
  apiKey,          \* OPENAI_API_KEY is configured
  now,             \* Date.now()
  uploadedFiles,   \* BillsReceiptsManager state
  selectedFile,    \* BillsReceiptsManager state: None or Some(file snapshot)
  isProcessing,    \* BillsReceiptsManager state
  extractCalls,    \* processFile invocations awaiting extractTransactionsFromImage
  nextDoc,         \* number of documents uploaded so far
  transactions,    \* App state: the ledger
  svc,             \* a direct call of chatAboutReceipt or generateFinancialInsights
  chatMessages,    \* BillsReceiptsManager state: the transcript
  currentMessage,  \* BillsReceiptsManager state: the chat input
  chatCalls,       \* sendMessage invocations awaiting chatAboutReceipt
  chatSent,        \* number of messages sent so far
  hasCompletedSetup, \* App state
  aiInsights,      \* StudentDashboard state
  insights,        \* StudentDashboard: the memoized combined insight list
  insightCalls,    \* loadAiInsights invocations awaiting generateFinancialInsights
  insightSeq       \* number of loadAiInsights invocations that called the service

chatVars == <<chatMessages, currentMessage, chatCalls, chatSent>>

dashVars == <<hasCompletedSetup, aiInsights, insights, insightCalls, insightSeq>>

vars ==
  <<apiKey, now, uploadedFiles, selectedFile, isProcessing, extractCalls,
    nextDoc, transactions, svc, chatVars, dashVars>>


(***************************************************************************)
(* Number formatting.  ToFixed2 is Number.prototype.toFixed(2) of an       *)
(* amount held in cents (non-negative in every use).                       *)
(***************************************************************************)
TwoDigits(n) == IF n < 10 THEN "0" \o ToString(n) ELSE ToString(n)
ToFixed2(c) == ToString(c \div 100) \o "." \o TwoDigits(c % 100)

RECURSIVE SumAmounts(_)
SumAmounts(ts) ==
  IF ts = <<>> THEN 0 ELSE ts[1].amount + SumAmounts(Tail(ts))

\* new Date().toISOString().split('T')[0]; every clock value of the model
\* falls on the same day.
TodayDate(t) == "2024-03-05"

(***************************************************************************)
(* services/openai.ts: extractTransactionsFromImage.  o is what the fetch  *)
(* does; the result is either a thrown error or the parsed payload, which  *)
(* is returned as it is.                                                   *)
(***************************************************************************)
extractTransactionsFromImage(key, o) ==
  IF ~key THEN [threw |-> TRUE, error |-> "noKey", value |-> NullPayload]
  ELSE IF o.kind \in TransportErrors \cup MalformedResponses
    THEN [threw |-> TRUE, error |-> o.kind, value |-> NullPayload]
    ELSE [threw |-> FALSE, error |-> "none", value |-> o.payload]

(***************************************************************************)
(* BillsReceiptsManager.processFile after the await.                       *)
(***************************************************************************)
\* variant: the items are stored in reverse order
MapExtractedReversed(raw, t) ==
  [i \in 1..Len(raw) |->
     [id |-> ToString(t) \o ToString(i - 1),
      date |-> raw[Len(raw) + 1 - i].date,
      amount |-> raw[Len(raw) + 1 - i].amount,
      category |-> raw[Len(raw) + 1 - i].category,
      description |-> raw[Len(raw) + 1 - i].description,
      type |-> raw[Len(raw) + 1 - i].type]]

\* result.transactions.map(...) of lines 112-119
MapExtracted(raw, t) ==
  [i \in 1..Len(raw) |->
     [id |-> ToString(t) \o ToString(i - 1),
      date |-> raw[i].date,
      amount |-> raw[i].amount,
      category |-> raw[i].category,
      description |-> raw[i].description,
      type |-> raw[i].type]]

\* mockTransactions of lines 135-152
MockTransactions(t) ==
  << [id |-> ToString(t), date |-> TodayDate(t), amount |-> 2599,
      category |-> "food", description |-> "Grocery items from receipt",
      type |-> "expense"],
     [id |-> ToString(t + 1), date |-> TodayDate(t), amount |-> 350,
      category |-> "food", description |-> "Beverage from receipt",
      type |-> "expense"] >>

\* mockAnalysis of line 154
MockAnalysis(fileType, t) ==
  "I've analyzed your " \o (IF fileType = "image" THEN "receipt" ELSE "bill")
  \o " and found " \o ToString(Len(MockTransactions(t)))
  \o " transactions. The total amount is $"
  \o ToFixed2(SumAmounts(MockTransactions(t)))
  \o ". This appears to be a valid financial document with multiple line items extracted as separate transactions."

DefaultRejection ==
  "This does not appear to be a valid receipt, bill, or financial document."

\* variant: the reason is stored without the prefix
RejectionAnalysisBare(reason) ==
  IF Truthy(reason) THEN reason[1] ELSE DefaultRejection

\* the template string of line 105
RejectionAnalysis(reason) ==
  "Document rejected: " \o (IF Truthy(reason) THEN reason[1] ELSE DefaultRejection)

\* variant: a thrown error marks the document as rejected
ProcessBranchErrorOnThrow(r) ==
  IF r.threw THEN "rejected"
  ELSE IF r.value.isNull THEN "catch"
  ELSE IF ~r.value.isValidDocument THEN "rejected"
  ELSE IF r.value.transactions = None THEN "catch"
  ELSE IF \E i \in 1..Len(r.value.transactions[1]) :
            r.value.transactions[1][i].isNull THEN "catch"
  ELSE "completed"

\* variant: an invalid document is handled as a failure
ProcessBranchThrowsOnInvalid(r) ==
  IF r.threw THEN "catch"
  ELSE IF r.value.isNull THEN "catch"
  ELSE IF ~r.value.isValidDocument THEN "catch"
  ELSE IF r.value.transactions = None THEN "catch"
  ELSE IF \E i \in 1..Len(r.value.transactions[1]) :
            r.value.transactions[1][i].isNull THEN "catch"
  ELSE "completed"

\* Which way the try block of processFile goes for the call result r:
\* "rejected" (lines 99-110), "completed" (lines 112-130) or "catch"
\* (lines 131-165: the call threw, or reading the result threw a TypeError).
ProcessBranch(r) ==
  IF r.threw THEN "catch"
  ELSE IF r.value.isNull THEN "catch"
  ELSE IF ~r.value.isValidDocument THEN "rejected"
  ELSE IF r.value.transactions = None THEN "catch"
  ELSE IF \E i \in 1..Len(r.value.transactions[1]) :
            r.value.transactions[1][i].isNull THEN "catch"
  ELSE "completed"

\* variant: the rejected branch keeps the leading items of the raw result
ProcessedFileStoresRejected(f, file, r, t) ==
  CASE ProcessBranch(r) = "rejected" ->
         [f EXCEPT !.status = "error",
                   !.extractedTransactions =
                      IF r.value.transactions = None THEN <<>>
                      ELSE MapExtracted(
                             SubSeq(r.value.transactions[1], 1,
                                    IF Len(r.value.transactions[1]) > 0 THEN 1 ELSE 0), t),
                   !.aiAnalysis = Some(RejectionAnalysis(r.value.rejectionReason))]
    [] ProcessBranch(r) = "completed" ->
         [f EXCEPT !.status = "completed",
                   !.extractedTransactions = MapExtracted(r.value.transactions[1], t),
                   !.aiAnalysis = r.value.analysis]
    [] OTHER ->
         [f EXCEPT !.status = "completed",
                   !.extractedTransactions = MockTransactions(t),
                   !.aiAnalysis = Some(MockAnalysis(file.type, t))]

\* The object that replaces f in the prev.map(...) of the taken branch.
ProcessedFile(f, file, r, t) ==
  CASE ProcessBranch(r) = "rejected" ->
         [f EXCEPT !.status = "error",
                   !.aiAnalysis = Some(RejectionAnalysis(r.value.rejectionReason))]
    [] ProcessBranch(r) = "completed" ->
         [f EXCEPT !.status = "completed",
                   !.extractedTransactions = MapExtracted(r.value.transactions[1], t),
                   !.aiAnalysis = r.value.analysis]
    [] OTHER ->
         [f EXCEPT !.status = "completed",
                   !.extractedTransactions = MockTransactions(t),
                   !.aiAnalysis = Some(MockAnalysis(file.type, t))]

\* variant: the update is applied without the id test
UpdateFilesNoIdTest(files, file, r, t) ==
  [i \in 1..Len(files) |-> ProcessedFile(files[i], file, r, t)]

\* variant: a result for a file that is no longer listed is added back
UpdateFilesUpsert(files, file, r, t) ==
  IF \E i \in 1..Len(files) : files[i].id = file.id
  THEN [i \in 1..Len(files) |->
          IF files[i].id = file.id THEN ProcessedFile(files[i], file, r, t)
          ELSE files[i]]
  ELSE Append(files, ProcessedFile(file, file, r, t))

\* variant: a failure of the try block leaves the file as it is
UpdateFilesNoCatch(files, file, r, t) ==
  [i \in 1..Len(files) |->
     IF files[i].id = file.id /\ ProcessBranch(r) /= "catch"
     THEN ProcessedFile(files[i], file, r, t)
     ELSE files[i]]

\* setUploadedFiles(prev => prev.map(f => f.id === file.id ? {...} : f))
UpdateFiles(files, file, r, t) ==
  [i \in 1..Len(files) |->
     IF files[i].id = file.id THEN ProcessedFile(files[i], file, r, t)
     ELSE files[i]]

\* variant: a new file starts with a placeholder transaction
NewFileWithPlaceholder(id, type) ==
  [id |-> id, type |-> type, preview |-> "data:" \o type \o ToString(id),
   status |-> "processing",
   extractedTransactions |->
     << [id |-> "pending", date |-> "", amount |-> 0, category |-> "other",
         description |-> "Processing", type |-> "expense"] >>,
   aiAnalysis |-> None]

\* newFile of lines 65-73
NewFile(id, type) ==
  [id |-> id, type |-> type, preview |-> "data:" \o type \o ToString(id),
   status |-> "processing", extractedTransactions |-> <<>>,
   aiAnalysis |-> None]

FileTypes == { "image", "pdf" }


(***************************************************************************)
(* services/openai.ts: request construction.  A request is the sequence of *)
(* its messages; the content of a message is the sequence of its text      *)
(* chunks (the lines of a text joined by "\n", or a prefix followed by the *)
(* elements of a JSON array), and image is the attached image, if any.     *)
(***************************************************************************)
ChatWindow == 50
InsightWindow == 20
MinInsightLedger == 5

Message(role, content, image) ==
  [role |-> role, content |-> content, image |-> image]

\* variant: slice(0, k)
SliceFirst(s, k) ==
  IF Len(s) <= k THEN s ELSE SubSeq(s, 1, k)

\* Array.prototype.slice(-k)
SliceLast(s, k) ==
  IF Len(s) <= k THEN s ELSE SubSeq(s, Len(s) - k + 1, Len(s))

\* String(n) of an amount held in cents: 1250 is "12.5", 300 is "3"
NumStr(c) ==
  LET a == IF c < 0 THEN 0 - c ELSE c
      f == a % 100
  IN (IF c < 0 THEN "-" ELSE "") \o ToString(a \div 100)
     \o (IF f = 0 THEN ""
         ELSE IF f % 10 = 0 THEN "." \o ToString(f \div 10)
         ELSE "." \o TwoDigits(f))

\* one line of transactionSummary (openai.ts line 140)
HistoryLine(t) ==
  t.date \o ": " \o (IF t.type = "income" THEN "+" ELSE "-") \o "$"
  \o NumStr(t.amount) \o " - " \o t.description \o " (" \o t.category \o ")"

\* JSON.stringify of one transaction
JsonTx(t) ==
  "{\"id\":\"" \o t.id \o "\",\"date\":\"" \o t.date \o "\",\"amount\":"
  \o NumStr(t.amount) \o ",\"category\":\"" \o t.category
  \o "\",\"description\":\"" \o t.description \o "\",\"type\":\"" \o t.type
  \o "\"}"

ChatSystemPrompt ==
  "You are a helpful financial assistant specializing in explaining bills, receipts, and transactions to students."
HistoryIntro == "Here is the user's recent transaction history for context:"
HistoryOutro ==
  "Use this information to provide personalized insights and answer questions about their spending patterns, budgets, and financial habits."
ContextPrefix == "Context about the current receipt/bill: "
InsightSystemPrompt ==
  "You are a financial advisor for students. Analyze the transaction data and provide 3-5 actionable insights."
InsightPrefix == "Analyze these transactions and provide insights: "

\* variant: the document context is pushed before the ledger summary
ChatRequestContextFirst(message, imageData, context, txs) ==
  << Message("system", << ChatSystemPrompt >>, None) >>
  \o (IF Truthy(context)
      THEN << Message("system", << ContextPrefix \o context[1] >>, None) >>
      ELSE << >>)
  \o (IF Len(txs) > 0
      THEN << Message("system",
                << HistoryIntro >>
                \o [i \in 1..Len(SliceLast(txs, ChatWindow)) |->
                      HistoryLine(SliceLast(txs, ChatWindow)[i])]
                \o << "", HistoryOutro >>,
                None) >>
      ELSE << >>)
  \o << Message("user", << message >>,
                IF Truthy(imageData) THEN imageData ELSE None) >>

\* the messages array of chatAboutReceipt (lines 122-164)
ChatRequest(message, imageData, context, txs) ==
  << Message("system", << ChatSystemPrompt >>, None) >>
  \o (IF Len(txs) > 0
      THEN << Message("system",
                << HistoryIntro >>
                \o [i \in 1..Len(SliceLast(txs, ChatWindow)) |->
                      HistoryLine(SliceLast(txs, ChatWindow)[i])]
                \o << "", HistoryOutro >>,
                None) >>
      ELSE << >>)
  \o (IF Truthy(context)
      THEN << Message("system", << ContextPrefix \o context[1] >>, None) >>
      ELSE << >>)
  \o << Message("user", << message >>,
                IF Truthy(imageData) THEN imageData ELSE None) >>

\* variant: only the credential is tested
InsightsFetchesKeyOnly(key, txs) == key

\* whether generateFinancialInsights issues a fetch (line 205)
InsightsFetches(key, txs) == key /\ Len(txs) /= 0

\* variant: the whole ledger is serialized
InsightsRequestWholeLedger(txs) ==
  << Message("system", << InsightSystemPrompt >>, None),
     Message("user",
       << InsightPrefix >> \o [i \in 1..Len(txs) |-> JsonTx(txs[i])],
       None) >>

\* the messages of generateFinancialInsights (lines 218-229)
InsightsRequest(txs) ==
  << Message("system", << InsightSystemPrompt >>, None),
     Message("user",
       << InsightPrefix >>
       \o [i \in 1..Len(SliceLast(txs, InsightWindow)) |->
             JsonTx(SliceLast(txs, InsightWindow)[i])],
       None) >>

(***************************************************************************)
(* What a chat or insight fetch does: kind as for the extraction call, and *)
(* for kind "content" the text of choices[0].message.content.  The content *)
(* of an insight reply is a JSON text: parses tells whether JSON.parse     *)
(* accepts it, isArray whether the value is an array and items its         *)
(* elements, each a string or another JSON value.                          *)
(***************************************************************************)
JsonString(s) == [isString |-> TRUE, text |-> s]
JsonNumber == [isString |-> FALSE, text |-> "42"]

Reply(k, txt, p, a, items) ==
  [kind |-> k, text |-> txt, parses |-> p, isArray |-> a, items |-> items]
FailedReply(k) == Reply(k, "", FALSE, FALSE, << >>)
ReplyFailures == { "fetchReject", "httpError", "noChoices", "emptyContent" }

ChatReplies ==
  { FailedReply(k) : k \in ReplyFailures }
  \cup { Reply("content", "That price looks reasonable.", FALSE, FALSE, << >>) }

InsightReplies ==
  { FailedReply(k) : k \in ReplyFailures }
  \cup { Reply("content", "Sorry, no insights.", FALSE, FALSE, << >>),
         Reply("content", "{\"tip\":\"save\"}", TRUE, FALSE, << >>),
         Reply("content", "[\"Cook at home\"]", TRUE, TRUE,
               << JsonString("Cook at home") >>),
         Reply("content", "[\"Cook at home\",42]", TRUE, TRUE,
               << JsonString("Cook at home"), JsonNumber >>) }

\* chatAboutReceipt after the fetch (lines 180-201)
ChatResult(o) ==
  IF o.kind = "content" /\ o.text /= ""
  THEN [threw |-> FALSE, value |-> << JsonString(o.text) >>]
  ELSE [threw |-> TRUE, value |-> << >>]

\* variant: the catch block rethrows
InsightsResultRethrows(o) ==
  IF o.kind = "content" /\ o.text /= "" /\ o.parses /\ o.isArray
  THEN [threw |-> FALSE, value |-> o.items]
  ELSE IF o.kind = "content" /\ (o.text = "" \/ o.parses)
    THEN [threw |-> FALSE, value |-> << >>]
    ELSE [threw |-> TRUE, value |-> << >>]

\* generateFinancialInsights after the fetch (lines 235-252)
InsightsResult(o) ==
  IF o.kind = "content" /\ o.text /= "" /\ o.parses /\ o.isArray
  THEN [threw |-> FALSE, value |-> o.items]
  ELSE [threw |-> FALSE, value |-> << >>]

(***************************************************************************)
(* A direct call of a service function: the function, the request it has   *)
(* sent (fetched tells whether it has sent one), and how it ended.         *)
(***************************************************************************)
Call(fn, st, fetched, req, value) ==
  [fn |-> fn, state |-> st, fetched |-> fetched, request |-> req,
   value |-> value]
IdleCall == Call("none", "idle", FALSE, << >>, << >>)

(***************************************************************************)
(* StudentDashboard: metrics and the combined insight list.                *)
(***************************************************************************)
\* CATEGORIES.find(c => c.value === v)?.label || v (the label without its
\* leading pictograph)
CategoryLabel(v) ==
  CASE v = "food" -> "Food & Dining"
    [] v = "transportation" -> "Transportation"
    [] v = "education" -> "Education"
    [] v = "entertainment" -> "Entertainment"
    [] v = "shopping" -> "Shopping"
    [] v = "health" -> "Health & Fitness"
    [] v = "utilities" -> "Utilities"
    [] v = "rent" -> "Rent & Housing"
    [] v = "income" -> "Income"
    [] v = "other" -> "Other"
    [] OTHER -> v

OfType(txs, type) == SelectSeq(txs, LAMBDA t : t.type = type)

\* metrics.categoryTotals: the total of each category among the expenses
CategoryTotals(txs) ==
  LET E == OfType(txs, "expense")
  IN [c \in { E[i].category : i \in 1..Len(E) } |->
        SumAmounts(SelectSeq(E, LAMBDA t : t.category = c))]

\* the key order of metrics.categoryTotals: the position of the first
\* expense of each category
KeyOrder(txs) ==
  LET E == OfType(txs, "expense")
  IN [c \in { E[i].category : i \in 1..Len(E) } |->
        CHOOSE i \in 1..Len(E) :
          /\ E[i].category = c
          /\ \A j \in 1..(i - 1) : E[j].category /= c]

\* Object.entries(metrics.categoryTotals).sort(([,a], [,b]) => b - a)[0]
TopCategory(txs) ==
  LET total == CategoryTotals(txs)
      first == KeyOrder(txs)
  IN CHOOSE c \in DOMAIN total :
       \A e \in (DOMAIN total) \ { c } :
         \/ total[c] > total[e]
         \/ total[c] = total[e] /\ first[c] < first[e]

\* Object.keys(metrics.dailySpending).length
SpendingDays(txs) ==
  Cardinality({ OfType(txs, "expense")[i].date : i \in 1..Len(OfType(txs, "expense")) })

\* (n / d).toFixed(1) of a ratio in percent, n and d > 0 in cents
Percent1(n, d) ==
  LET a == IF n < 0 THEN 0 - n ELSE n
      tenths == (2000 * a + d) \div (2 * d)
  IN (IF n < 0 /\ tenths > 0 THEN "-" ELSE "")
     \o ToString(tenths \div 10) \o "." \o ToString(tenths % 10)

Insight(type, title, message, action) ==
  [type |-> type, title |-> title, message |-> message, action |-> action]

\* basicInsights of the insights memo (lines 384-419)
BasicInsights(txs) ==
  LET E == OfType(txs, "expense")
      income == SumAmounts(OfType(txs, "income"))
      expenses == SumAmounts(E)
      net == income - expenses
      days == IF SpendingDays(txs) > 1 THEN SpendingDays(txs) ELSE 1
      top == TopCategory(txs)
  IN (IF E /= << >>
      THEN << Insight("warning", "Top Spending Category",
                CategoryLabel(top) \o " accounts for $"
                  \o ToFixed2(CategoryTotals(txs)[top]) \o " of your expenses",
                "Consider setting a budget limit for this category") >>
      ELSE << >>)
     \o (IF income > 0 /\ 5 * net < income
         THEN << Insight("tip", "Improve Your Savings Rate",
                   "You're saving " \o Percent1(net, income) \o "% of your income",
                   "Try to save at least 20% for a healthy financial future") >>
         ELSE << >>)
     \o (IF expenses > 5000 * days
         THEN << Insight("alert", "High Daily Spending",
                   "Your average daily spending is $"
                     \o ToFixed2((2 * expenses + days) \div (2 * days)),
                   "Consider tracking smaller purchases to reduce daily expenses") >>
         ELSE << >>)

\* the value of the insights memo computed from a ledger and an aiInsights
\* list (lines 383-431)
CombinedInsights(txs, ai) ==
  BasicInsights(txs)
  \o [i \in 1..Len(ai) |->
        Insight("tip", "AI Insight", ai[i],
                "Consider this recommendation for better financial health")]

\* loadAiInsights of the effect on [transactions] (lines 436-452), up to
\* the await.  Without a fetch generateFinancialInsights returns [] at once.
loadAiInsights(txs) ==
  IF Len(txs) < MinInsightLedger
  THEN UNCHANGED <<aiInsights, insightCalls, insightSeq>>
  ELSE IF InsightsFetches(apiKey, txs)
    THEN /\ insightSeq' = insightSeq + 1
         /\ insightCalls' = insightCalls \cup { [seq |-> insightSeq + 1, ledger |-> txs] }
         /\ UNCHANGED aiInsights
    ELSE /\ aiInsights' = << >>
         /\ UNCHANGED <<insightCalls, insightSeq>>

\* The render of StudentDashboard that follows a write of the ledger: the
\* metrics memo and with it the insights memo are computed again, from the
\* aiInsights of this render, and the effect runs.
StudentDashboard(txs) ==
  /\ insights' = CombinedInsights(txs, aiInsights)
  /\ loadAiInsights(txs)

Init ==
  /\ apiKey \in BOOLEAN
  /\ now = 0
  /\ uploadedFiles = <<>>
  /\ selectedFile = None
  /\ isProcessing = FALSE
  /\ extractCalls = {}
  /\ nextDoc = 0
  /\ transactions = <<>>
  /\ svc = IdleCall
  /\ chatMessages = << >>
  /\ currentMessage = ""
  /\ chatCalls = {}
  /\ chatSent = 0
  /\ hasCompletedSetup = TRUE
  /\ aiInsights = << >>
  /\ insights = CombinedInsights(transactions, << >>)
  /\ insightCalls = {}
  /\ insightSeq = 0

\* onDrop: reader.onload of one accepted file, with the synchronous part of
\* processFile.  Without a credential the call rejects at once and the catch
\* block runs before any other event.
onDrop(type) ==
  /\ nextDoc < MaxDocs
  /\ nextDoc' = nextDoc + 1
  /\ LET file == NewFile(nextDoc + 1, type)
         r == extractTransactionsFromImage(apiKey, NoOutcome)
     IN IF apiKey
        THEN /\ uploadedFiles' = Append(uploadedFiles, file)
             /\ isProcessing' = TRUE
             /\ extractCalls' = extractCalls \cup { file }
        ELSE /\ uploadedFiles' = UpdateFiles(Append(uploadedFiles, file), file, r, now)
             /\ isProcessing' = FALSE
             /\ UNCHANGED extractCalls
  /\ UNCHANGED chatVars
  /\ UNCHANGED dashVars
  /\ UNCHANGED <<apiKey, now, selectedFile, transactions, svc>>

\* variant: a completed extraction is merged at once
processFileAutoMerges(file, o) ==
  /\ file \in extractCalls
  /\ extractCalls' = extractCalls \ { file }
  /\ uploadedFiles' =
       UpdateFiles(uploadedFiles, file, extractTransactionsFromImage(apiKey, o), now)
  /\ isProcessing' = FALSE
  /\ transactions' =
       IF \E j \in 1..Len(uploadedFiles) : uploadedFiles[j].id = file.id
       THEN transactions
            \o ProcessedFile(file, file, extractTransactionsFromImage(apiKey, o), now).extractedTransactions
       ELSE transactions
  /\ UNCHANGED chatVars
  /\ UNCHANGED dashVars
  /\ UNCHANGED <<apiKey, now, selectedFile, nextDoc, svc>>

\* processFile resumes after the await with what the fetch did.
processFile(file, o) ==
  /\ file \in extractCalls
  /\ extractCalls' = extractCalls \ { file }
  /\ uploadedFiles' =
       UpdateFiles(uploadedFiles, file, extractTransactionsFromImage(apiKey, o), now)
  /\ isProcessing' = FALSE
  /\ UNCHANGED chatVars
  /\ UNCHANGED dashVars
  /\ UNCHANGED <<apiKey, now, selectedFile, nextDoc, transactions, svc>>

\* variant: the selection is kept
deleteFileKeepsSelection(fileId) ==
  /\ \E i \in 1..Len(uploadedFiles) : uploadedFiles[i].id = fileId
  /\ uploadedFiles' = SelectSeq(uploadedFiles, LAMBDA f : f.id /= fileId)
  /\ UNCHANGED chatVars
  /\ UNCHANGED dashVars
  /\ UNCHANGED <<apiKey, now, selectedFile, isProcessing, extractCalls,
                 nextDoc, transactions, svc>>

\* deleteFile(fileId)
deleteFile(fileId) ==
  /\ \E i \in 1..Len(uploadedFiles) : uploadedFiles[i].id = fileId
  /\ uploadedFiles' = SelectSeq(uploadedFiles, LAMBDA f : f.id /= fileId)
  /\ selectedFile' =
       IF selectedFile /= None /\ selectedFile[1].id = fileId THEN None
       ELSE selectedFile
  /\ UNCHANGED chatVars
  /\ UNCHANGED dashVars
  /\ UNCHANGED <<apiKey, now, isProcessing, extractCalls,
                 nextDoc, transactions, svc>>

\* setSelectedFile(file) of the upload, chat and history tabs
selectFile(i) ==
  /\ i \in 1..Len(uploadedFiles)
  /\ selectedFile' = Some(uploadedFiles[i])
  /\ UNCHANGED chatVars
  /\ UNCHANGED dashVars
  /\ UNCHANGED <<apiKey, now, uploadedFiles, isProcessing, extractCalls,
                 nextDoc, transactions, svc>>

\* the file selection of the chat tab set to "Select a file..."
clearSelection ==
  /\ selectedFile /= None
  /\ selectedFile' = None
  /\ UNCHANGED chatVars
  /\ UNCHANGED dashVars
  /\ UNCHANGED <<apiKey, now, uploadedFiles, isProcessing, extractCalls,
                 nextDoc, transactions, svc>>

\* variant: transactions whose id is already in the ledger are skipped
handleAddTransactionsDedup(newTransactions) ==
  transactions' =
    transactions \o
      SelectSeq(newTransactions,
                LAMBDA t : \A k \in 1..Len(transactions) : transactions[k].id /= t.id)

\* App.handleAddTransactions
handleAddTransactions(newTransactions) ==
  transactions' = transactions \o newTransactions

\* addTransactionsToTracker(file.extractedTransactions) of the i-th file
addTransactionsToTracker(i) ==
  /\ i \in 1..Len(uploadedFiles)
  /\ Len(transactions) + Len(uploadedFiles[i].extractedTransactions) <= MaxLedger
  /\ handleAddTransactions(uploadedFiles[i].extractedTransactions)
  /\ UNCHANGED <<apiKey, now, uploadedFiles, selectedFile, isProcessing,
                 extractCalls, nextDoc, svc>>
  /\ UNCHANGED chatVars
  /\ UNCHANGED hasCompletedSetup
  /\ StudentDashboard(transactions')

Next ==
  \/ \E type \in FileTypes : onDrop(type)
  \/ \E file \in extractCalls, o \in Outcomes : processFile(file, o)
  \/ \E d \in 1..MaxDocs : deleteFile(d)
  \/ \E i \in 1..MaxDocs : selectFile(i)
  \/ clearSelection
  \/ \E i \in 1..MaxDocs :
       insightSeq < MaxInsightCalls /\ addTransactionsToTracker(i)

Spec == Init /\ [][Next]_vars

\* Uploads, extraction results and deletions alone, where the extraction
\* call of every document resolves or rejects in the end.
NextPipeline ==
  \/ \E type \in FileTypes : onDrop(type)
  \/ \E file \in extractCalls, o \in Outcomes : processFile(file, o)
  \/ \E d \in 1..MaxDocs : deleteFile(d)

SpecLive ==
  /\ Init /\ [][NextPipeline]_vars
  /\ \A d \in 1..MaxDocs :
       WF_vars(\E file \in extractCalls, o \in Outcomes :
                 file.id = d /\ processFile(file, o))

(***************************************************************************)
(* The chat of BillsReceiptsManager.                                       *)
(***************************************************************************)
ChatMessage(id, type, message, fileId) ==
  [id |-> id, type |-> type, message |-> message, fileId |-> fileId]

\* aiResponses of lines 217-223
aiResponses ==
  << "Based on your receipt, this appears to be a legitimate purchase. The pricing is consistent with current market rates for these items.",
     "I can see this is a grocery receipt. The total seems reasonable for the items listed. Would you like me to break down the categories?",
     "This bill shows your monthly utilities. The charges appear normal compared to seasonal averages. The breakdown includes base rate, usage, and taxes.",
     "Looking at this receipt, I notice a few items that might be categorized differently. Would you like me to suggest better categories for budgeting?",
     "The transaction amounts on this receipt are all within normal ranges. I can help you set up automatic categorization for similar purchases." >>

\* what the user types into the chat input
TypedTexts == { " ", "Is this price reasonable?", "And the tea?" }

\* String.prototype.trim on the texts of the model
Trim(m) == IF m \in { "", " " } THEN "" ELSE m

\* selectedFile?.id, selectedFile?.preview, selectedFile?.aiAnalysis
SelectedId == IF selectedFile = None THEN None ELSE Some(selectedFile[1].id)
SelectedPreview == IF selectedFile = None THEN None ELSE Some(selectedFile[1].preview)
SelectedAnalysis == IF selectedFile = None THEN None ELSE selectedFile[1].aiAnalysis

\* onChange of the chat input
setCurrentMessage(m) ==
  /\ currentMessage /= m
  /\ currentMessage' = m
  /\ UNCHANGED <<chatMessages, chatCalls, chatSent>>
  /\ UNCHANGED dashVars
  /\ UNCHANGED <<apiKey, now, uploadedFiles, selectedFile, isProcessing,
                 extractCalls, nextDoc, transactions, svc>>

\* the transcript as conversation turns of a request
TranscriptTurns(msgs) ==
  [i \in 1..Len(msgs) |->
     Message(IF msgs[i].type = "user" THEN "user" ELSE "assistant",
             << msgs[i].message >>, None)]

\* variant: the transcript so far is sent ahead of the new message
sendMessageResendsTranscript(k) ==
  /\ Trim(currentMessage) /= ""
  /\ chatSent < MaxChat
  /\ chatSent' = chatSent + 1
  /\ currentMessage' = ""
  /\ LET userMessage == ChatMessage(ToString(now), "user", currentMessage, SelectedId)
         r == ChatRequest(currentMessage, SelectedPreview, SelectedAnalysis, transactions)
     IN IF apiKey
        THEN /\ chatMessages' = Append(chatMessages, userMessage)
             /\ chatCalls' = chatCalls \cup
                  { [seq |-> chatSent + 1, fileId |-> SelectedId,
                     request |-> SubSeq(r, 1, Len(r) - 1)
                                 \o TranscriptTurns(chatMessages)
                                 \o << r[Len(r)] >>] }
        ELSE /\ chatMessages' =
                  chatMessages \o
                    << userMessage,
                       ChatMessage(ToString(now + 1), "ai", aiResponses[k], SelectedId) >>
             /\ UNCHANGED chatCalls
  /\ UNCHANGED dashVars
  /\ UNCHANGED <<apiKey, now, uploadedFiles, selectedFile, isProcessing,
                 extractCalls, nextDoc, transactions, svc>>

\* sendMessage up to the await.  Without a credential chatAboutReceipt
\* rejects at once and the catch block runs before any other event; k is the
\* index drawn with Math.random.
sendMessage(k) ==
  /\ Trim(currentMessage) /= ""
  /\ chatSent < MaxChat
  /\ chatSent' = chatSent + 1
  /\ currentMessage' = ""
  /\ LET userMessage == ChatMessage(ToString(now), "user", currentMessage, SelectedId)
     IN IF apiKey
        THEN /\ chatMessages' = Append(chatMessages, userMessage)
             /\ chatCalls' = chatCalls \cup
                  { [seq |-> chatSent + 1, fileId |-> SelectedId,
                     request |-> ChatRequest(currentMessage, SelectedPreview,
                                             SelectedAnalysis, transactions)] }
        ELSE /\ chatMessages' =
                  chatMessages \o
                    << userMessage,
                       ChatMessage(ToString(now + 1), "ai", aiResponses[k], SelectedId) >>
             /\ UNCHANGED chatCalls
  /\ UNCHANGED dashVars
  /\ UNCHANGED <<apiKey, now, uploadedFiles, selectedFile, isProcessing,
                 extractCalls, nextDoc, transactions, svc>>

\* variant: a failed call is only logged
sendMessageResumesSilentOnFailure(c, o, k) ==
  /\ c \in chatCalls
  /\ chatCalls' = chatCalls \ { c }
  /\ chatMessages' =
       IF ChatResult(o).threw THEN chatMessages
       ELSE Append(chatMessages,
              ChatMessage(ToString(now + 1), "ai", ChatResult(o).value[1].text, c.fileId))
  /\ UNCHANGED <<currentMessage, chatSent>>
  /\ UNCHANGED dashVars
  /\ UNCHANGED <<apiKey, now, uploadedFiles, selectedFile, isProcessing,
                 extractCalls, nextDoc, transactions, svc>>

\* sendMessage resumes after the await with what the fetch did (lines
\* 204-234); c.fileId is the selectedFile?.id of the closure.
sendMessageResumes(c, o, k) ==
  /\ c \in chatCalls
  /\ chatCalls' = chatCalls \ { c }
  /\ chatMessages' =
       Append(chatMessages,
         ChatMessage(ToString(now + 1), "ai",
           IF ChatResult(o).threw THEN aiResponses[k]
           ELSE ChatResult(o).value[1].text,
           c.fileId))
  /\ UNCHANGED <<currentMessage, chatSent>>
  /\ UNCHANGED dashVars
  /\ UNCHANGED <<apiKey, now, uploadedFiles, selectedFile, isProcessing,
                 extractCalls, nextDoc, transactions, svc>>

\* the index used when the call fails; a successful call draws none
FallbackIndexes(o) == IF ChatResult(o).threw THEN 1..Len(aiResponses) ELSE { 1 }

\* The chat alone: no document is uploaded, so selectedFile stays None.
NextChat ==
  \/ \E m \in TypedTexts : setCurrentMessage(m)
  \/ \E k \in (IF apiKey THEN { 1 } ELSE 1..Len(aiResponses)) : sendMessage(k)
  \/ \E c \in chatCalls, o \in ChatReplies :
       \E k \in FallbackIndexes(o) : sendMessageResumes(c, o, k)

SpecChat == Init /\ [][NextChat]_vars

\* Every chat call resolves or rejects in the end.
SpecChatLive ==
  /\ SpecChat
  /\ \A n \in 1..MaxChat :
       WF_vars(\E c \in chatCalls, o \in ChatReplies :
                 \E k \in FallbackIndexes(o) :
                   c.seq = n /\ sendMessageResumes(c, o, k))

\* The chat over uploaded documents: what the extraction of a document may
\* return here is one result of each branch of processFile.
ChatDocOutcomes ==
  { Outcome("fetchReject", NullPayload),
    Outcome("parsed", Payload(FALSE, FALSE, Some("not a financial document"),
                              Some(RawReceipt), Some("Unrelated photo"))),
    Outcome("parsed", Payload(FALSE, TRUE, None, Some(<<RawTea>>), Some("Receipt"))) }

NextChatDoc ==
  \/ nextDoc < MaxChatDocs /\ onDrop("image")
  \/ \E file \in extractCalls, o \in ChatDocOutcomes : processFile(file, o)
  \/ \E d \in 1..MaxDocs : deleteFile(d)
  \/ \E i \in 1..MaxDocs : selectFile(i)
  \/ clearSelection
  \/ NextChat

SpecChatDoc == Init /\ [][NextChatDoc]_vars

(***************************************************************************)
(* App and TransactionModal: manual entry; the clock.                      *)
(***************************************************************************)
\* what the amount field of the form can hold at a submit: the field is a
\* required number input with min="0" and step="0.01"
FormAmounts == { "0", "12.50" }

\* formData of the modal at a submit that passes the form's validation
FormData(amount, category, description) ==
  [date |-> "2024-03-05", amount |-> amount, category |-> category,
   description |-> description, type |-> "expense"]

Forms ==
  { FormData(a, "food", "Lunch") : a \in FormAmounts }
  \cup { FormData("12.50", "food", "") }

\* parseFloat of an amount field, in cents
ParseFloat(str) ==
  CASE str = "0" -> 0
    [] str = "12.50" -> 1250

\* variant: the new transaction is put in front
handleAddTransactionPrepends(transaction) ==
  transactions' =
    << [id |-> ToString(now),
        date |-> transaction.date, amount |-> transaction.amount,
        category |-> transaction.category,
        description |-> transaction.description, type |-> transaction.type] >>
    \o transactions

\* handleAddTransaction of App (lines 47-53)
handleAddTransaction(transaction) ==
  transactions' =
    Append(transactions,
           [id |-> ToString(now),
            date |-> transaction.date, amount |-> transaction.amount,
            category |-> transaction.category,
            description |-> transaction.description, type |-> transaction.type])

\* TransactionModal.handleSubmit; the modal is opened from the dashboard
handleSubmit(formData) ==
  /\ hasCompletedSetup
  /\ formData.amount /= "" /\ formData.category /= "" /\ formData.description /= ""
  /\ handleAddTransaction(
       [date |-> formData.date, amount |-> ParseFloat(formData.amount),
        category |-> formData.category, description |-> formData.description,
        type |-> formData.type])
  /\ StudentDashboard(transactions')
  /\ UNCHANGED hasCompletedSetup
  /\ UNCHANGED chatVars
  /\ UNCHANGED <<apiKey, now, uploadedFiles, selectedFile, isProcessing,
                 extractCalls, nextDoc, svc>>

\* a millisecond passes
Tick ==
  /\ now < MaxClock
  /\ now' = now + 1
  /\ UNCHANGED chatVars
  /\ UNCHANGED dashVars
  /\ UNCHANGED <<apiKey, uploadedFiles, selectedFile, isProcessing,
                 extractCalls, nextDoc, transactions, svc>>

\* Uploads, results and manual entries under a running clock.
NextClock ==
  \/ Tick
  \/ \E type \in FileTypes : onDrop(type)
  \/ \E file \in extractCalls, o \in ChatDocOutcomes : processFile(file, o)
  \/ \E formData \in Forms :
       /\ Len(transactions) < MaxLedger /\ insightSeq < MaxInsightCalls
       /\ handleSubmit(formData)

SpecClock == Init /\ [][NextClock]_vars

(***************************************************************************)
(* SetupWizard and the completion of the setup.                            *)
(***************************************************************************)
\* a line of the uploaded CSV file after the header: the parsed amount is
\* in cents
CsvRow(amount, description) ==
  [date |-> "2024-02-01", amount |-> amount, category |-> "food",
   description |-> description, type |-> "expense"]

CsvRows ==
  << CsvRow(450, "Coffee"), CsvRow(0, "Voucher"), CsvRow(1200, "Lunch"),
     CsvRow(0 - 500, "Refund"), CsvRow(2500, "Books"), CsvRow(799, "Snacks"),
     CsvRow(3000, "Bus pass") >>

\* reader.onload of processCSV (lines 938-966): the rows with amount > 0 are
\* appended to the list of the wizard
processCSV(prev, rows, t) ==
  prev \o
  SelectSeq([i \in 1..Len(rows) |->
               [id |-> ToString(t) \o ToString(i), date |-> rows[i].date,
                amount |-> rows[i].amount, category |-> rows[i].category,
                description |-> rows[i].description, type |-> rows[i].type]],
            LAMBDA x : x.amount > 0)

\* the lists the wizard hands to onComplete: canProceed asks for five
\* transactions at least
WizardLists ==
  { processCSV(<< >>, CsvRows, now),
    processCSV(<< >>, CsvRows \o << CsvRow(150, "Pen") >>, now) }

\* handleSetupComplete of App (lines 42-45); the wizard is shown while the
\* setup is not completed, and the dashboard is mounted with the new ledger
handleSetupComplete(initialTransactions) ==
  /\ ~hasCompletedSetup
  /\ transactions' = initialTransactions
  /\ hasCompletedSetup' = TRUE
  /\ StudentDashboard(initialTransactions)
  /\ UNCHANGED chatVars
  /\ UNCHANGED <<apiKey, now, uploadedFiles, selectedFile, isProcessing,
                 extractCalls, nextDoc, svc>>

\* the App before and after the setup, with the ledger that localStorage
\* holds before the first write
InitApp ==
  /\ apiKey \in BOOLEAN
  /\ now = 0
  /\ uploadedFiles = <<>>
  /\ selectedFile = None
  /\ isProcessing = FALSE
  /\ extractCalls = {}
  /\ nextDoc = 0
  /\ transactions = <<>>
  /\ svc = IdleCall
  /\ chatMessages = << >>
  /\ currentMessage = ""
  /\ chatCalls = {}
  /\ chatSent = 0
  /\ hasCompletedSetup \in BOOLEAN
  /\ aiInsights = << >>
  /\ insights = CombinedInsights(transactions, << >>)
  /\ insightCalls = {}
  /\ insightSeq = 0

\* The writes of the ledger: setup, manual entry, merge.
NextApp ==
  \/ \E l \in WizardLists : handleSetupComplete(l)
  \/ \E formData \in Forms :
       /\ Len(transactions) < MaxAppLedger /\ insightSeq < MaxInsightCalls
       /\ handleSubmit(formData)
  \/ hasCompletedSetup /\ nextDoc < MaxChatDocs /\ onDrop("image")
  \/ \E file \in extractCalls, o \in ChatDocOutcomes : processFile(file, o)
  \/ \E i \in 1..MaxDocs :
       insightSeq < MaxInsightCalls /\ addTransactionsToTracker(i)

SpecApp == InitApp /\ [][NextApp]_vars

(***************************************************************************)
(* The service functions called directly, on a ledger loaded from          *)
(* localStorage.                                                           *)
(***************************************************************************)
\* a ledger of n transactions as JSON.parse(savedTransactions) returns it
StoredLedger(n) ==
  [i \in 1..n |->
     [id |-> ToString(i), date |-> "2024-02-01", amount |-> 125 * i,
      category |-> IF i % 2 = 0 THEN "food" ELSE "rent",
      description |-> "item " \o ToString(i),
      type |-> IF i % 3 = 0 THEN "income" ELSE "expense"]]

InitService ==
  /\ apiKey \in BOOLEAN
  /\ now = 0
  /\ uploadedFiles = <<>>
  /\ selectedFile = None
  /\ isProcessing = FALSE
  /\ extractCalls = {}
  /\ nextDoc = 0
  /\ transactions \in { StoredLedger(n) : n \in 0..MaxHistory }
  /\ svc = IdleCall
  /\ chatMessages = << >>
  /\ currentMessage = ""
  /\ chatCalls = {}
  /\ chatSent = 0
  /\ hasCompletedSetup = TRUE
  /\ aiInsights = << >>
  /\ insights = CombinedInsights(transactions, << >>)
  /\ insightCalls = {}
  /\ insightSeq = 0

ChatTexts == { "Is this price reasonable?" }
ImageInputs == { None, Some("data:image1") }
ContextInputs == { None, Some(""), Some("Receipt with two food items") }

callChatAboutReceipt(message, imageData, context) ==
  /\ svc.state /= "pending"
  /\ svc' =
       IF ~apiKey THEN Call("chat", "threw", FALSE, << >>, << >>)
       ELSE Call("chat", "pending", TRUE,
                 ChatRequest(message, imageData, context, transactions), << >>)
  /\ UNCHANGED chatVars
  /\ UNCHANGED dashVars
  /\ UNCHANGED <<apiKey, now, uploadedFiles, selectedFile, isProcessing,
                 extractCalls, nextDoc, transactions>>

chatAboutReceiptReturns(o) ==
  /\ svc.fn = "chat" /\ svc.state = "pending"
  /\ svc' = [svc EXCEPT
               !.state = IF ChatResult(o).threw THEN "threw" ELSE "returned",
               !.value = ChatResult(o).value]
  /\ UNCHANGED chatVars
  /\ UNCHANGED dashVars
  /\ UNCHANGED <<apiKey, now, uploadedFiles, selectedFile, isProcessing,
                 extractCalls, nextDoc, transactions>>

callGenerateFinancialInsights ==
  /\ svc.state /= "pending"
  /\ svc' =
       IF InsightsFetches(apiKey, transactions)
       THEN Call("insights", "pending", TRUE, InsightsRequest(transactions), << >>)
       ELSE Call("insights", "returned", FALSE, << >>, << >>)
  /\ UNCHANGED chatVars
  /\ UNCHANGED dashVars
  /\ UNCHANGED <<apiKey, now, uploadedFiles, selectedFile, isProcessing,
                 extractCalls, nextDoc, transactions>>

generateFinancialInsightsReturns(o) ==
  /\ svc.fn = "insights" /\ svc.state = "pending"
  /\ svc' = [svc EXCEPT
               !.state = IF InsightsResult(o).threw THEN "threw" ELSE "returned",
               !.value = InsightsResult(o).value]
  /\ UNCHANGED chatVars
  /\ UNCHANGED dashVars
  /\ UNCHANGED <<apiKey, now, uploadedFiles, selectedFile, isProcessing,
                 extractCalls, nextDoc, transactions>>

NextService ==
  \/ \E m \in ChatTexts, img \in ImageInputs, c \in ContextInputs :
       callChatAboutReceipt(m, img, c)
  \/ \E o \in ChatReplies : chatAboutReceiptReturns(o)
  \/ callGenerateFinancialInsights
  \/ \E o \in InsightReplies : generateFinancialInsightsReturns(o)

SpecService == InitService /\ [][NextService]_vars

(***************************************************************************)
(* The dashboard on a stored ledger: manual entries, and the results of    *)
(* the generateFinancialInsights calls of the effect, in any order.        *)
(***************************************************************************)
\* loadAiInsights after the await (lines 441-448): setAiInsights(insights).
\* aiInsights is no dependency of the insights memo (line 431), and the
\* metrics it depends on are those of the unchanged ledger.
loadAiInsightsResumes(c, o) ==
  /\ c \in insightCalls
  /\ insightCalls' = insightCalls \ { c }
  /\ aiInsights' =
       IF InsightsResult(o).threw THEN aiInsights ELSE InsightsResult(o).value
  /\ UNCHANGED <<hasCompletedSetup, insights, insightSeq>>
  /\ UNCHANGED chatVars
  /\ UNCHANGED <<apiKey, now, uploadedFiles, selectedFile, isProcessing,
                 extractCalls, nextDoc, transactions, svc>>

\* the dashboard mounted on a stored ledger too short for the effect to call
InitDashboard ==
  /\ apiKey \in BOOLEAN
  /\ now = 0
  /\ uploadedFiles = <<>>
  /\ selectedFile = None
  /\ isProcessing = FALSE
  /\ extractCalls = {}
  /\ nextDoc = 0
  /\ transactions \in { StoredLedger(n) : n \in 0..(MinInsightLedger - 1) }
  /\ svc = IdleCall
  /\ chatMessages = << >>
  /\ currentMessage = ""
  /\ chatCalls = {}
  /\ chatSent = 0
  /\ hasCompletedSetup = TRUE
  /\ aiInsights = << >>
  /\ insights = CombinedInsights(transactions, << >>)
  /\ insightCalls = {}
  /\ insightSeq = 0

NextDashboard ==
  \/ \E formData \in Forms :
       /\ Len(transactions) < MaxAppLedger /\ insightSeq < MaxInsightCalls
       /\ handleSubmit(formData)
  \/ \E c \in insightCalls, o \in InsightReplies : loadAiInsightsResumes(c, o)

SpecDashboard == InitDashboard /\ [][NextDashboard]_vars

(***************************************************************************)
(* Properties.                                                             *)
(***************************************************************************)
\* the positions of the file with the given id in a file list
Holding(files, id) == { j \in 1..Len(files) : files[j].id = id }

\* the payload is an object whose isValidDocument is true and whose
\* transactions field is a list of objects
WellFormedValid(p) ==
  /\ ~p.isNull /\ p.isValidDocument /\ p.transactions /= None
  /\ \A k \in 1..Len(p.transactions[1]) : ~p.transactions[1][k].isNull

\* the payload is an object whose isValidDocument is false or missing
CleanRejection(p) == ~p.isNull /\ ~p.isValidDocument

\* the file holds one of the synthetic fallback transactions
HasFallback(f) ==
  \E k \in 1..Len(f.extractedTransactions) :
    f.extractedTransactions[k].description
      \in { "Grocery items from receipt", "Beverage from receipt" }

\* C1: once the status of a document has left 'processing', no step changes
\* it while the document exists.
C1_StatusIsFinal ==
  [][\A i \in 1..Len(uploadedFiles) :
       uploadedFiles[i].status /= "processing" =>
         \A j \in Holding(uploadedFiles', uploadedFiles[i].id) :
           uploadedFiles'[j].status = uploadedFiles[i].status]_vars

\* a rejected and a completed document side by side, and a merge done
C1_Witness ==
  \E i, j \in 1..Len(uploadedFiles) :
    /\ uploadedFiles[i].status = "error"
    /\ uploadedFiles[j].status = "completed"
    /\ Len(transactions) > 0

\* C2: a result with isValidDocument = false leaves the document rejected
\* with no extracted transaction, whatever result.transactions holds, and a
\* rejected document never holds a transaction.
C2_RejectedStoresNothing ==
  [][/\ \A file \in extractCalls, o \in Outcomes :
          (o.kind = "parsed" /\ CleanRejection(o.payload) /\ processFile(file, o)) =>
            \A j \in Holding(uploadedFiles', file.id) :
              /\ uploadedFiles'[j].status = "error"
              /\ uploadedFiles'[j].extractedTransactions = <<>>
     /\ \A j \in 1..Len(uploadedFiles') :
          uploadedFiles'[j].status = "error" =>
            uploadedFiles'[j].extractedTransactions = <<>>]_vars

\* a document rejected by the result that carried two raw transactions
C2_Witness ==
  \E i \in 1..Len(uploadedFiles) :
    /\ uploadedFiles[i].status = "error"
    /\ uploadedFiles[i].aiAnalysis = Some("Document rejected: not a financial document")
    /\ uploadedFiles[i].extractedTransactions = <<>>

\* C3: when the extraction call raises a transport error or a malformed
\* response error, the document, if it still exists, is completed with a
\* non-empty transaction list and a non-empty analysis.
C3_FailureFallsBack ==
  [][\A file \in extractCalls, o \in Outcomes :
       (o.kind \in TransportErrors \cup MalformedResponses /\ processFile(file, o)) =>
         \A j \in Holding(uploadedFiles', file.id) :
           /\ uploadedFiles'[j].status = "completed"
           /\ Len(uploadedFiles'[j].extractedTransactions) > 0
           /\ uploadedFiles'[j].aiAnalysis /= None
           /\ uploadedFiles'[j].aiAnalysis[1] /= ""]_vars

\* with a credential, a completed pdf whose analysis is the fallback text
C3_Witness ==
  /\ apiKey
  /\ \E i \in 1..Len(uploadedFiles) :
       /\ uploadedFiles[i].status = "completed"
       /\ uploadedFiles[i].type = "pdf"
       /\ Len(uploadedFiles[i].extractedTransactions) = 2
       /\ uploadedFiles[i].aiAnalysis =
            Some("I've analyzed your bill and found 2 transactions. The total amount is $29.49. This appears to be a valid financial document with multiple line items extracted as separate transactions.")

\* C4: a merge appends the document's extracted list to the ledger and leaves
\* the document as it is, so a second merge appends the list again.
C4_MergeCopies ==
  [][\A i \in 1..Len(uploadedFiles) :
       addTransactionsToTracker(i) =>
         /\ transactions' = transactions \o uploadedFiles[i].extractedTransactions
         /\ Len(transactions') =
              Len(transactions) + Len(uploadedFiles[i].extractedTransactions)
         /\ uploadedFiles' = uploadedFiles]_vars

\* the ledger after two merges of one completed document
C4_Witness ==
  \E i \in 1..Len(uploadedFiles) :
    /\ uploadedFiles[i].status = "completed"
    /\ uploadedFiles[i].extractedTransactions /= <<>>
    /\ transactions =
         uploadedFiles[i].extractedTransactions \o uploadedFiles[i].extractedTransactions

\* C5: the history summary of a chat request holds the last min(n, 50)
\* ledger transactions, in ledger order, one line each, and no summary is
\* sent for an empty ledger.
C5_ChatWindow ==
  (svc.fn = "chat" /\ svc.fetched) =>
    LET n == Len(transactions)
        k == IF n < 50 THEN n ELSE 50
        summaries == { m \in 1..Len(svc.request) :
                         svc.request[m].content[1] = HistoryIntro }
    IN IF n = 0 THEN summaries = {}
       ELSE /\ summaries = { 2 }
            /\ svc.request[2].content =
                 << HistoryIntro >>
                 \o [i \in 1..k |-> HistoryLine(transactions[n - k + i])]
                 \o << "", HistoryOutro >>

\* a chat request sent for a ledger of 60 transactions
C5_Witness ==
  /\ svc.fn = "chat" /\ svc.fetched
  /\ Len(transactions) = 60
  /\ Len(svc.request[2].content) = 53
  /\ svc.request[2].content[2] = HistoryLine(transactions[11])

\* C6: the user turn of an insight request holds the last min(n, 20) ledger
\* transactions in ledger order.
C6_InsightWindow ==
  (svc.fn = "insights" /\ svc.fetched) =>
    LET n == Len(transactions)
        k == IF n < 20 THEN n ELSE 20
    IN /\ n >= 1
       /\ Len(svc.request) = 2
       /\ svc.request[2].role = "user"
       /\ svc.request[2].content =
            << InsightPrefix >> \o [i \in 1..k |-> JsonTx(transactions[n - k + i])]

\* an insight request sent for a ledger of 25 transactions
C6_Witness ==
  /\ svc.fn = "insights" /\ svc.fetched
  /\ Len(transactions) = 25
  /\ Len(svc.request[2].content) = 21
  /\ svc.request[2].content[2] = JsonTx(transactions[6])

\* C7: generateFinancialInsights on an empty ledger returns [] and sends no
\* request, with or without a credential.
C7_EmptyLedgerNoRequest ==
  (svc.fn = "insights" /\ Len(transactions) = 0) =>
    /\ svc.state = "returned"
    /\ ~svc.fetched
    /\ svc.request = << >>
    /\ svc.value = << >>

\* the call has returned for an empty ledger with a credential configured
C7_Witness ==
  /\ apiKey
  /\ svc.fn = "insights" /\ svc.state = "returned"
  /\ Len(transactions) = 0

\* C8: a valid result with the list R completes the document with
\* result.analysis and one transaction per item of R, in order, carrying its
\* date, amount, category, description and type; a merge then appends
\* exactly the document's transactions.
C8_ValidResultStored ==
  [][/\ \A file \in extractCalls, o \in Outcomes :
          (o.kind = "parsed" /\ WellFormedValid(o.payload) /\ processFile(file, o)) =>
            \A j \in Holding(uploadedFiles', file.id) :
              LET R == o.payload.transactions[1]
                  E == uploadedFiles'[j].extractedTransactions
              IN /\ uploadedFiles'[j].status = "completed"
                 /\ uploadedFiles'[j].aiAnalysis = o.payload.analysis
                 /\ Len(E) = Len(R)
                 /\ \A k \in 1..Len(R) :
                      /\ E[k].date = R[k].date
                      /\ E[k].amount = R[k].amount
                      /\ E[k].category = R[k].category
                      /\ E[k].description = R[k].description
                      /\ E[k].type = R[k].type
     /\ \A i \in 1..Len(uploadedFiles) :
          (uploadedFiles[i].status = "completed" /\ addTransactionsToTracker(i)) =>
            SubSeq(transactions', Len(transactions) + 1, Len(transactions'))
              = uploadedFiles[i].extractedTransactions]_vars

\* the two-item receipt, extracted and merged
C8_Witness ==
  \E i \in 1..Len(uploadedFiles) :
    /\ uploadedFiles[i].status = "completed"
    /\ uploadedFiles[i].aiAnalysis = Some("Receipt with two food items")
    /\ Len(uploadedFiles[i].extractedTransactions) = 2
    /\ uploadedFiles[i].extractedTransactions[1].amount = 1250
    /\ uploadedFiles[i].extractedTransactions[2].amount = 300
    /\ uploadedFiles[i].extractedTransactions[2].description = "Tea"
    /\ transactions = uploadedFiles[i].extractedTransactions

\* C9 as stated: the analysis of a document rejected with the reason r equals r.
C9_ReasonVerbatim ==
  [][\A file \in extractCalls, o \in Outcomes :
       (/\ o.kind = "parsed" /\ CleanRejection(o.payload)
        /\ Truthy(o.payload.rejectionReason)
        /\ processFile(file, o)) =>
         \A j \in Holding(uploadedFiles', file.id) :
           uploadedFiles'[j].aiAnalysis = o.payload.rejectionReason]_vars

\* C9: the analysis of a rejected document is "Document rejected: " followed
\* by the reason r, or by the fixed default explanation when the result
\* carries no reason or an empty one.
C9_ReasonPrefixed ==
  [][\A file \in extractCalls, o \in Outcomes :
       (o.kind = "parsed" /\ CleanRejection(o.payload) /\ processFile(file, o)) =>
         \A j \in Holding(uploadedFiles', file.id) :
           uploadedFiles'[j].aiAnalysis =
             IF Truthy(o.payload.rejectionReason)
             THEN Some("Document rejected: " \o o.payload.rejectionReason[1])
             ELSE Some("Document rejected: This does not appear to be a valid receipt, bill, or financial document.")]_vars

\* a document rejected with a reason, next to one rejected without
C9_Witness ==
  \E i, j \in 1..Len(uploadedFiles) :
    /\ uploadedFiles[i].status = "error"
    /\ uploadedFiles[i].aiAnalysis = Some("Document rejected: not a financial document")
    /\ uploadedFiles[j].status = "error"
    /\ uploadedFiles[j].aiAnalysis /= uploadedFiles[i].aiAnalysis

\* C10 as stated: a document receives the fallback transactions only when
\* its extraction call raised a transport or malformed-response error.
C10_FallbackOnlyOnTransportOrMalformed ==
  [][/\ \A type \in FileTypes :
          onDrop(type) =>
            \A j \in Holding(uploadedFiles', nextDoc') : ~HasFallback(uploadedFiles'[j])
     /\ \A file \in extractCalls, o \in Outcomes :
          (/\ processFile(file, o)
           /\ \E j \in Holding(uploadedFiles', file.id) : HasFallback(uploadedFiles'[j])) =>
            o.kind \in TransportErrors \cup MalformedResponses]_vars

\* an outcome on which the try block of processFile raises an exception
RaisesInProcessFile(o) ==
  \/ o.kind \in TransportErrors \cup MalformedResponses
  \/ /\ o.kind = "parsed"
     /\ ~CleanRejection(o.payload)
     /\ ~WellFormedValid(o.payload)

\* C10: a document receives the fallback transactions only when its
\* extraction call raised an error (no credential, transport error,
\* malformed response) or reading the returned result raised an exception;
\* never on a clean isValidDocument = false or a well-formed valid result.
C10_FallbackOnlyOnException ==
  [][/\ \A type \in FileTypes :
          (/\ nextDoc' /= nextDoc
           /\ \E j \in Holding(uploadedFiles', nextDoc') : HasFallback(uploadedFiles'[j])
           /\ onDrop(type)) =>
            ~apiKey
     /\ \A file \in extractCalls \ extractCalls' :
          (\E j \in Holding(uploadedFiles', file.id) : HasFallback(uploadedFiles'[j])) =>
            /\ apiKey
            /\ \A o \in Outcomes : ~RaisesInProcessFile(o) => ~processFile(file, o)]_vars

\* with a credential: a fallback document, a rejected one, and nothing else
\* holding fallback transactions
C10_Witness ==
  /\ apiKey
  /\ \E i, j \in 1..Len(uploadedFiles) :
       /\ HasFallback(uploadedFiles[i])
       /\ uploadedFiles[j].status = "error"
       /\ ~HasFallback(uploadedFiles[j])

\* the payload is an object with the fields of TransactionExtraction that
\* the caller reads: a transactions list of objects and an analysis string
MatchesExtractionResult(p) ==
  /\ ~p.isNull /\ p.transactions /= None /\ p.analysis /= None
  /\ \A k \in 1..Len(p.transactions[1]) : ~p.transactions[1][k].isNull

\* C11 as stated: a payload that parses as JSON but does not match
\* ExtractionResult makes the call fail, so the document is handled as for a
\* malformed response (the fallback) and is neither rejected nor completed
\* from the payload.
C11_StrictDecoding ==
  [][\A file \in extractCalls, o \in Outcomes :
       (/\ o.kind = "parsed" /\ ~MatchesExtractionResult(o.payload)
        /\ processFile(file, o)) =>
         \A j \in Holding(uploadedFiles', file.id) :
           /\ uploadedFiles'[j].status = "completed"
           /\ HasFallback(uploadedFiles'[j])]_vars

\* C12 as stated: every value returned by generateFinancialInsights is a list
\* of strings.
C12_InsightsAreStrings ==
  (svc.fn = "insights" /\ svc.state = "returned") =>
    \A k \in 1..Len(svc.value) : svc.value[k].isString

\* C13: generateFinancialInsights never rejects; without a credential and for
\* a failed fetch, a non-2xx status, missing choices or content and
\* unparseable content it returns the empty list.
C13_InsightsNeverThrow ==
  [][/\ \A o \in InsightReplies :
          generateFinancialInsightsReturns(o) =>
            /\ svc'.state = "returned"
            /\ (o.kind /= "content" \/ o.text = "" \/ ~o.parses) => svc'.value = << >>
     /\ (callGenerateFinancialInsights /\ ~apiKey) =>
          (svc'.state = "returned" /\ svc'.value = << >>)
     /\ svc'.fn = "insights" => svc'.state /= "threw"]_vars

\* a call that has ended with the empty list although a request was sent
C13_Witness ==
  /\ svc.fn = "insights" /\ svc.fetched
  /\ svc.state = "returned" /\ svc.value = << >>

\* C15: the selection is empty or refers to a listed document; deleteFile
\* clears a selection of the deleted document and keeps any other.
C15_SelectionIsListed ==
  /\ [](selectedFile = None \/ Holding(uploadedFiles, selectedFile[1].id) /= {})
  /\ [][\A d \in 1..MaxDocs :
          deleteFile(d) =>
            selectedFile' =
              IF selectedFile /= None /\ selectedFile[1].id = d THEN None
              ELSE selectedFile]_vars

\* the other document is deleted and the selection is kept
C15_Witness ==
  /\ nextDoc = 2 /\ Len(uploadedFiles) = 1
  /\ selectedFile /= None
  /\ selectedFile[1].id = uploadedFiles[1].id

\* C16: the result of a call whose document has been deleted changes no
\* listed document and does not list the document again.
C16_LateResultDiscarded ==
  [][\A file \in extractCalls, o \in Outcomes :
       (Holding(uploadedFiles, file.id) = {} /\ processFile(file, o)) =>
         /\ uploadedFiles' = uploadedFiles
         /\ Holding(uploadedFiles', file.id) = {}]_vars

\* a call in flight for a deleted document, next to a finished document
C16_Witness ==
  /\ \E file \in extractCalls : Holding(uploadedFiles, file.id) = {}
  /\ \E i \in 1..Len(uploadedFiles) : uploadedFiles[i].status /= "processing"

\* C17: a document that is processing is in the end deleted or finished.
C17_ReachesTerminal ==
  \A d \in 1..MaxDocs :
    (\E j \in Holding(uploadedFiles, d) : uploadedFiles[j].status = "processing")
      ~> (\A j \in Holding(uploadedFiles, d) :
            uploadedFiles[j].status \in { "completed", "error" })

\* two listed documents, both finished, none in flight
C17_Witness ==
  /\ Len(uploadedFiles) = 2 /\ extractCalls = {}
  /\ \A j \in 1..2 : uploadedFiles[j].status \in { "completed", "error" }

\* C18: a merge of a processing or rejected document is possible and leaves
\* the ledger as it is.
C18_MergeOfUnfinished ==
  /\ [](\A i \in 1..Len(uploadedFiles) :
          uploadedFiles[i].status \in { "processing", "error" } =>
            ENABLED addTransactionsToTracker(i))
  /\ [][\A i \in 1..Len(uploadedFiles) :
          (/\ uploadedFiles[i].status \in { "processing", "error" }
           /\ addTransactionsToTracker(i)) =>
            transactions' = transactions]_vars

\* a processing and a rejected document, the ledger still empty
C18_Witness ==
  /\ \E i, j \in 1..Len(uploadedFiles) :
       uploadedFiles[i].status = "processing" /\ uploadedFiles[j].status = "error"
  /\ transactions = << >>

\* C19: the ledger changes only in a merge: no step that uploads a document,
\* ends an extraction (completed, rejected or fallen back) or deletes a
\* document changes the ledger.
C19_LedgerChangesOnlyByMerge ==
  /\ [][transactions' /= transactions =>
          \E i \in 1..Len(uploadedFiles) : addTransactionsToTracker(i)]_vars
  /\ [][(\/ extractCalls' /= extractCalls
         \/ uploadedFiles' /= uploadedFiles
         \/ nextDoc' /= nextDoc) => transactions' = transactions]_vars

\* one document completed with transactions, another was deleted, and the
\* ledger is still empty
C19_Witness ==
  /\ nextDoc = 2 /\ Len(uploadedFiles) = 1 /\ extractCalls = {}
  /\ uploadedFiles[1].status = "completed"
  /\ uploadedFiles[1].extractedTransactions /= << >>
  /\ transactions = << >>

(***************************************************************************)
(* Chat.                                                                   *)
(***************************************************************************)
FallbackTexts == { aiResponses[k] : k \in 1..Len(aiResponses) }

\* number of messages of one type among the first i of the transcript
RECURSIVE CountType(_, _)
CountType(type, i) ==
  IF i = 0 THEN 0
  ELSE CountType(type, i - 1) + (IF chatMessages[i].type = type THEN 1 ELSE 0)

NumUser == CountType("user", Len(chatMessages))
NumAi == CountType("ai", Len(chatMessages))

\* position of the n-th user message of the transcript
UserIndex(n) ==
  CHOOSE i \in 1..Len(chatMessages) :
    chatMessages[i].type = "user" /\ CountType("user", i) = n

\* the user and assistant messages of a request
RECURSIVE Turns(_)
Turns(request) ==
  IF request = << >> THEN << >>
  ELSE (IF request[1].role = "system" THEN << >> ELSE << request[1] >>)
       \o Turns(Tail(request))

ServiceSucceeds(o) == o.kind = "content" /\ o.text /= ""

\* C14: every non-blank user message put on the transcript by sendMessage
\* gets exactly one assistant message after it once its service call has
\* resolved or rejected: each user message has its reply or its pending call
\* and never more, replies never outnumber the user messages before them, the
\* n-th reply arrives in the end, and the reply is the service's text on
\* success and one of the five fixed fallback texts on a missing credential,
\* a transport error, a non-2xx status or empty content.
C14_ChatNeverDeadEnds ==
  /\ [](/\ NumAi + Cardinality(chatCalls) = NumUser
        /\ \A i \in 1..Len(chatMessages) : CountType("ai", i) <= CountType("user", i)
        /\ \A i \in 1..Len(chatMessages) :
             chatMessages[i].type = "user" => Trim(chatMessages[i].message) /= "")
  /\ \A n \in 1..MaxChat : (NumUser >= n) ~> (NumAi >= n)
  /\ [][\A c \in chatCalls, o \in ChatReplies, k \in 1..Len(aiResponses) :
          sendMessageResumes(c, o, k) =>
            /\ Len(chatMessages') = Len(chatMessages) + 1
            /\ SubSeq(chatMessages', 1, Len(chatMessages)) = chatMessages
            /\ chatMessages'[Len(chatMessages')].type = "ai"
            /\ IF ServiceSucceeds(o)
               THEN chatMessages'[Len(chatMessages')].message = o.text
               ELSE chatMessages'[Len(chatMessages')].message \in FallbackTexts]_vars
  /\ [][\A k \in 1..Len(aiResponses) :
          sendMessage(k) /\ ~apiKey =>
            /\ Len(chatMessages') = Len(chatMessages) + 2
            /\ chatMessages'[Len(chatMessages) + 1].type = "user"
            /\ chatMessages'[Len(chatMessages) + 2].type = "ai"
            /\ chatMessages'[Len(chatMessages) + 2].message \in FallbackTexts]_vars

\* two messages were sent with a credential; one call returned text and the
\* other failed
C14_Witness ==
  /\ apiKey /\ chatCalls = {} /\ NumUser = 2 /\ NumAi = 2
  /\ \E i \in 1..Len(chatMessages) :
       chatMessages[i].type = "ai" /\ chatMessages[i].message \in FallbackTexts
  /\ \E i \in 1..Len(chatMessages) :
       chatMessages[i].type = "ai" /\ chatMessages[i].message \notin FallbackTexts

\* C20: the request built for the n-th user message contains the earlier
\* user and assistant messages of the transcript, in order, followed by the
\* new message.
C20_RequestCarriesTranscript ==
  \A c \in chatCalls :
    Turns(c.request) =
      TranscriptTurns(SubSeq(chatMessages, 1, UserIndex(c.seq) - 1))
      \o << Message("user", << chatMessages[UserIndex(c.seq)].message >>, None) >>

\* C20 (as the code has it): the request built for a user message contains
\* one conversation turn only, the new message; none of the earlier user or
\* assistant messages is sent.
C20_RequestCarriesNewMessageOnly ==
  \A c \in chatCalls :
    Turns(c.request) =
      << Message("user", << chatMessages[UserIndex(c.seq)].message >>, None) >>

\* the call of a second message is pending and the first has its reply
C20_Witness ==
  \E c \in chatCalls : c.seq = 2 /\ UserIndex(2) = 3 /\ chatMessages[2].type = "ai"

(***************************************************************************)
(* Request layering, independence of documents, stale selection.           *)
(***************************************************************************)
\* C21: the messages of a chat request are, in this order: the role system
\* instruction; a ledger summary system message exactly when the ledger
\* supplied is not empty; a document context system message exactly when
\* analysis text was supplied; one user turn, last, with the image exactly
\* when image data was supplied.
C21_RequestLayers ==
  [][\A m \in ChatTexts, img \in ImageInputs, c \in ContextInputs :
       (apiKey /\ callChatAboutReceipt(m, img, c)) =>
         LET r == svc'.request
             l == IF Len(transactions) > 0 THEN 1 ELSE 0
             x == IF c /= None /\ c[1] /= "" THEN 1 ELSE 0
         IN /\ Len(r) = 2 + l + x
            /\ r[1] = Message("system", << ChatSystemPrompt >>, None)
            /\ l = 1 => r[2].role = "system" /\ r[2].content[1] = HistoryIntro
            /\ x = 1 => r[2 + l] = Message("system", << ContextPrefix \o c[1] >>, None)
            /\ r[Len(r)] = Message("user", << m >>, img)
            /\ \A i \in 1..(Len(r) - 1) : r[i].role = "system" /\ r[i].image = None]_vars

\* a request of all four layers with an image on the user turn
C21_Witness ==
  /\ svc.fn = "chat" /\ svc.fetched
  /\ Len(svc.request) = 4
  /\ svc.request[3].content[1] = ContextPrefix \o "Receipt with two food items"
  /\ svc.request[4].image /= None

\* the status, transactions and analysis of a document
Outcome3(f) == << f.status, f.extractedTransactions, f.aiAnalysis >>

\* C22: a completion changes the document with its own id only, whatever
\* else is processing and in whatever order the results arrive, and what it
\* stores for its document is what it would store were that document the
\* only one listed.
C22_DocumentsIndependent ==
  [][\A file \in extractCalls \ extractCalls', o \in Outcomes :
       processFile(file, o) =>
         /\ Len(uploadedFiles') = Len(uploadedFiles)
         /\ \A j \in 1..Len(uploadedFiles) :
              IF uploadedFiles[j].id /= file.id
              THEN uploadedFiles'[j] = uploadedFiles[j]
              ELSE Outcome3(uploadedFiles'[j]) =
                     Outcome3(UpdateFiles(<< uploadedFiles[j] >>, file,
                                extractTransactionsFromImage(apiKey, o), now)[1])]_vars

\* two uploads were processing together and the later one ended first
C22_Witness ==
  /\ Len(uploadedFiles) = 2 /\ Cardinality(extractCalls) = 1
  /\ uploadedFiles[1].id = 1 /\ uploadedFiles[1].status = "processing"
  /\ uploadedFiles[2].id = 2 /\ uploadedFiles[2].status /= "processing"

\* C23: a message sent with a document selected carries, as document
\* context, the analysis that the tracker stores for that document at the
\* time of sending.
C23_ContextIsStoredAnalysis ==
  [][\A k \in 1..Len(aiResponses) :
       (apiKey /\ selectedFile /= None /\ sendMessage(k)) =>
         \A c \in chatCalls' \ chatCalls :
           \A j \in Holding(uploadedFiles, selectedFile[1].id) :
             c.request =
               ChatRequest(currentMessage, Some(uploadedFiles[j].preview),
                           uploadedFiles[j].aiAnalysis, transactions)]_vars

(***************************************************************************)
(* Transactions: identity, amounts, ledger writes.                         *)
(***************************************************************************)
\* every transaction created so far: the manual entries of the ledger and
\* the lists of the documents
Created ==
  LET RECURSIVE Lists(_)
      Lists(i) == IF i = 0 THEN << >>
                  ELSE Lists(i - 1) \o uploadedFiles[i].extractedTransactions
  IN transactions \o Lists(Len(uploadedFiles))

\* C24: two transactions created by separate creation events (items of one
\* extraction result, of two documents' results, fallback transactions of
\* two failed documents, manual entries) have different ids, also when the
\* events fall in the same millisecond.
C24_IdsNeverReused ==
  \A i, j \in 1..Len(Created) : i /= j => Created[i].id /= Created[j].id

\* C25: every transaction of the ledger has an amount above zero, whatever
\* its origin.
C25_AmountsPositive ==
  \A i \in 1..Len(transactions) : transactions[i].amount > 0

C27_IndicatorFollowsProcessing ==
  isProcessing <=>
    \E i \in 1..Len(uploadedFiles) : uploadedFiles[i].status = "processing"

\* C28: the transcript alternates: every assistant message stands right
\* after a user message.
C28_TranscriptAlternates ==
  \A i \in 1..Len(chatMessages) :
    chatMessages[i].type = "ai" =>
      i > 1 /\ chatMessages[i - 1].type = "user"

\* C29: the result of an insights call does not replace the stored insights
\* when a call requested later, for a newer ledger, has already resolved.
C29_OlderResultNeverOverwrites ==
  [][\A c \in insightCalls \ insightCalls' :
       (\E s \in (c.seq + 1)..insightSeq :
          \A d \in insightCalls : d.seq /= s) =>
         aiInsights' = aiInsights]_vars

\* C30: the memoized combined list is the basic insights of the ledger
\* followed by one entry per stored AI insight.
C30_MemoIncludesStoredInsights ==
  insights = CombinedInsights(transactions, aiInsights)

====
